---- MODULE Spec2Model ----
(***************************************************************************)
(* Model of the guard LDAP connector configuration (ldap/options.go) and   *)
(* of the installer command that prints the deployment manifest.           *)
(*                                                                         *)
(* Strings are sequences of tokens.  A token is a single filter            *)
(* metacharacter ("*", "(", ")", "\\", "NUL"), an escape sequence          *)
(* ("\\2a", "\\28", ...) or a run of ordinary characters ("alice",         *)
(* "objectClass=person").  The empty string is <<>>.  fmt.Sprintf with %s  *)
(* verbs is concatenation of such sequences.                               *)
(***************************************************************************)
EXTENDS Integers, Sequences, FiniteSets, TLC

VARIABLES phase, o, changed, ret, opts, out

vars == <<phase, o, changed, ret, opts, out>>

(***************************************************************************)
(* Bounds.                                                                 *)
(***************************************************************************)
\* number of --ldap.* flags given on one command line
MaxFlags == 2
\* length, in tokens, of a username or user DN handed to a request builder
MaxNameLen == 1

(***************************************************************************)
(* Strings.                                                                *)
(***************************************************************************)
Empty == <<>>

Meta == {"*", "(", ")", "\\", "NUL"}

NameTokens == Meta \cup {"alice"}

RECURSIVE SeqsUpTo(_, _)
SeqsUpTo(S, n) ==
    IF n = 0 THEN {<<>>}
    ELSE LET shorter == SeqsUpTo(S, n - 1)
         IN  shorter \cup {Append(s, t) : s \in shorter, t \in S}

\* the usernames and user DNs a caller may pass (the empty one included)
Names == SeqsUpTo(NameTokens, MaxNameLen)

\* parenthesis depth after reading s, or -1 once a ")" closes nothing
RECURSIVE Depth(_, _)
Depth(s, d) ==
    IF d < 0 THEN -1
    ELSE IF s = <<>> THEN d
    ELSE IF Head(s) = "(" THEN Depth(Tail(s), d + 1)
    ELSE IF Head(s) = ")" THEN Depth(Tail(s), d - 1)
    ELSE Depth(Tail(s), d)

Balanced(s) == Depth(s, 0) = 0

\* a directory filter: "(" ... ")" with balanced parentheses
WellFormed(s) == /\ s # <<>>
                 /\ Head(s) = "("
                 /\ s[Len(s)] = ")"
                 /\ Balanced(s)

\* directory-filter escaping of one token (RFC 4515 value encoding)
EscapeToken(t) ==
    CASE t = "\\"  -> "\\5c"
      [] t = "*"   -> "\\2a"
      [] t = "("   -> "\\28"
      [] t = ")"   -> "\\29"
      [] t = "NUL" -> "\\00"
      [] OTHER     -> t

EscapeFilter(s) == [i \in 1..Len(s) |-> EscapeToken(s[i])]

(***************************************************************************)
(* ldap.Options                                                            *)
(***************************************************************************)
DefaultUserSearchFilter == <<"(", "objectClass=person", ")">>
DefaultUserAttribute == <<"uid">>
DefaultGroupSearchFilter == <<"(", "objectClass=groupOfNames", ")">>
DefaultGroupMemberAttribute == <<"member">>
DefaultGroupNameAttribute == <<"cn">>

\* the zero value of the struct
Options ==
    [ServerAddress        |-> Empty,
     ServerPort           |-> Empty,
     BindDN               |-> Empty,
     BindPassword         |-> Empty,
     UserSearchDN         |-> Empty,
     UserSearchFilter     |-> Empty,
     UserAttribute        |-> Empty,
     GroupSearchDN        |-> Empty,
     GroupSearchFilter    |-> Empty,
     GroupMemberAttribute |-> Empty,
     GroupNameAttribute   |-> Empty,
     SkipTLSVerification  |-> FALSE,
     IsSecureLDAP         |-> FALSE,
     StartTLS             |-> FALSE,
     CaCertFile           |-> Empty,
     CaCertPool           |-> "nil"]

StringFlags == {"ServerAddress", "ServerPort", "BindDN", "BindPassword",
                "UserSearchDN", "UserSearchFilter", "UserAttribute",
                "GroupSearchDN", "GroupSearchFilter", "GroupMemberAttribute",
                "GroupNameAttribute", "CaCertFile"}

BoolFlags == {"SkipTLSVerification", "IsSecureLDAP", "StartTLS"}

Flags == StringFlags \cup BoolFlags

\* AddFlags with the user search filter's default taken from the struct
AddFlagsDefaultsKeepFilter(opt) ==
    [opt EXCEPT !.ServerPort           = <<"389">>,
                !.UserSearchFilter     = opt.UserSearchFilter,
                !.UserAttribute        = DefaultUserAttribute,
                !.GroupSearchFilter    = DefaultGroupSearchFilter,
                !.GroupMemberAttribute = DefaultGroupMemberAttribute,
                !.GroupNameAttribute   = DefaultGroupNameAttribute]

\* AddFlags as it leaves the struct: pflag's StringVar/BoolVar store the
\* default they are given into the bound field
AddFlagsDefaults(opt) ==
    [opt EXCEPT !.ServerAddress        = opt.ServerAddress,
                !.ServerPort           = <<"389">>,
                !.BindDN               = opt.BindDN,
                !.BindPassword         = opt.BindPassword,
                !.UserSearchDN         = opt.UserSearchDN,
                !.UserSearchFilter     = DefaultUserSearchFilter,
                !.UserAttribute        = DefaultUserAttribute,
                !.GroupSearchDN        = opt.GroupSearchDN,
                !.GroupSearchFilter    = DefaultGroupSearchFilter,
                !.GroupMemberAttribute = DefaultGroupMemberAttribute,
                !.GroupNameAttribute   = DefaultGroupNameAttribute,
                !.SkipTLSVerification  = FALSE,
                !.IsSecureLDAP         = FALSE,
                !.StartTLS             = FALSE,
                !.CaCertFile           = Empty]

\* the values a command line gives each flag
FlagValues(f) ==
    CASE f = "ServerAddress"        -> {<<"ldap.example.com">>}
      [] f = "ServerPort"           -> {<<"636">>}
      [] f = "BindDN"               -> {<<"cn=admin,dc=example">>}
      [] f = "BindPassword"         -> {<<"secret">>}
      [] f = "UserSearchDN"         -> {<<"ou=people,dc=example">>}
      [] f = "UserSearchFilter"     -> {<<"(", "objectClass=user", ")">>,
                                        <<"(", "objectClass=person">>, Empty}
      [] f = "UserAttribute"        -> {<<"cn">>, Empty}
      [] f = "GroupSearchDN"        -> {<<"ou=groups,dc=example">>}
      [] f = "GroupSearchFilter"    -> {<<"(", "objectClass=group", ")">>,
                                        <<"objectClass=group", ")">>}
      [] f = "GroupMemberAttribute" -> {<<"uniqueMember">>}
      [] f = "GroupNameAttribute"   -> {<<"ou">>}
      [] f = "CaCertFile"           -> {<<"/path/ca.crt">>}
      [] OTHER                      -> {TRUE}

(***************************************************************************)
(* ToArgs                                                                  *)
(***************************************************************************)
\* append(args, a) when cond
AppendIf(args, cond, a) == IF cond THEN Append(args, a) ELSE args

\* ToArgs handing on the configured path of the CA file
ToArgsOwnCaPath(opt) ==
    LET a1  == AppendIf(<<>>, opt.ServerAddress # Empty,
                        <<"--ldap.server-address=">> \o opt.ServerAddress)
        a2  == AppendIf(a1, opt.ServerPort # Empty,
                        <<"--ldap.server-port=">> \o opt.ServerPort)
        a3  == AppendIf(a2, opt.BindDN # Empty,
                        <<"--ldap.bind-dn=">> \o opt.BindDN)
        a4  == AppendIf(a3, opt.BindPassword # Empty,
                        <<"--ldap.bind-password=">> \o opt.BindPassword)
        a5  == AppendIf(a4, opt.UserSearchDN # Empty,
                        <<"--ldap.user-search-dn=">> \o opt.UserSearchDN)
        a6  == AppendIf(a5, opt.UserSearchFilter # Empty,
                        <<"--ldap.user-search-filter=">> \o opt.UserSearchFilter)
        a7  == AppendIf(a6, opt.UserSearchFilter # Empty,
                        <<"--ldap.user-attribute=">> \o opt.UserAttribute)
        a8  == AppendIf(a7, opt.GroupSearchDN # Empty,
                        <<"--ldap.group-search-dn=">> \o opt.GroupSearchDN)
        a9  == AppendIf(a8, opt.GroupSearchFilter # Empty,
                        <<"--ldap.group-search-filter=">> \o opt.GroupSearchFilter)
        a10 == AppendIf(a9, opt.GroupMemberAttribute # Empty,
                        <<"--ldap.group-member-attribute=">> \o opt.GroupMemberAttribute)
        a11 == AppendIf(a10, opt.GroupNameAttribute # Empty,
                        <<"--ldap.group-name-attribute=">> \o opt.GroupNameAttribute)
        a12 == AppendIf(a11, opt.SkipTLSVerification, <<"--ldap.skip-tls-verification">>)
        a13 == AppendIf(a12, opt.IsSecureLDAP, <<"--ldap.is-secure-ldap">>)
        a14 == AppendIf(a13, opt.StartTLS, <<"--ldap.start-tls">>)
        a15 == AppendIf(a14, opt.CaCertFile # Empty,
                        <<"--ldap.ca-cert-file=">> \o opt.CaCertFile)
    IN  a15

ToArgs(opt) ==
    LET a1  == AppendIf(<<>>, opt.ServerAddress # Empty,
                        <<"--ldap.server-address=">> \o opt.ServerAddress)
        a2  == AppendIf(a1, opt.ServerPort # Empty,
                        <<"--ldap.server-port=">> \o opt.ServerPort)
        a3  == AppendIf(a2, opt.BindDN # Empty,
                        <<"--ldap.bind-dn=">> \o opt.BindDN)
        a4  == AppendIf(a3, opt.BindPassword # Empty,
                        <<"--ldap.bind-password=">> \o opt.BindPassword)
        a5  == AppendIf(a4, opt.UserSearchDN # Empty,
                        <<"--ldap.user-search-dn=">> \o opt.UserSearchDN)
        a6  == AppendIf(a5, opt.UserSearchFilter # Empty,
                        <<"--ldap.user-search-filter=">> \o opt.UserSearchFilter)
        a7  == AppendIf(a6, opt.UserSearchFilter # Empty,
                        <<"--ldap.user-attribute=">> \o opt.UserAttribute)
        a8  == AppendIf(a7, opt.GroupSearchDN # Empty,
                        <<"--ldap.group-search-dn=">> \o opt.GroupSearchDN)
        a9  == AppendIf(a8, opt.GroupSearchFilter # Empty,
                        <<"--ldap.group-search-filter=">> \o opt.GroupSearchFilter)
        a10 == AppendIf(a9, opt.GroupMemberAttribute # Empty,
                        <<"--ldap.group-member-attribute=">> \o opt.GroupMemberAttribute)
        a11 == AppendIf(a10, opt.GroupNameAttribute # Empty,
                        <<"--ldap.group-name-attribute=">> \o opt.GroupNameAttribute)
        a12 == AppendIf(a11, opt.SkipTLSVerification, <<"--ldap.skip-tls-verification">>)
        a13 == AppendIf(a12, opt.IsSecureLDAP, <<"--ldap.is-secure-ldap">>)
        a14 == AppendIf(a13, opt.StartTLS, <<"--ldap.start-tls">>)
        a15 == AppendIf(a14, opt.CaCertFile # Empty,
                        <<"--ldap.ca-cert-file=", "/etc/guard/certs/", "ca.crt">>)
    IN  a15

(***************************************************************************)
(* Search requests                                                         *)
(***************************************************************************)
ScopeWholeSubtree == 2
NeverDerefAliases == 0

\* the zero value of ldap.SearchRequest
NoRequest ==
    [BaseDN |-> Empty, Scope |-> 0, DerefAliases |-> 0, SizeLimit |-> 0,
     TimeLimit |-> 0, TypesOnly |-> FALSE, Filter |-> Empty, Attributes |-> <<>>]

newUserSearchRequest(opt, username) ==
    LET userFilter == <<"(", "&">> \o opt.UserSearchFilter \o <<"(">>
                      \o opt.UserAttribute \o <<"=">> \o username \o <<")", ")">>
    IN  [BaseDN       |-> opt.UserSearchDN,
         Scope        |-> ScopeWholeSubtree,
         DerefAliases |-> NeverDerefAliases,
         SizeLimit    |-> 2,
         TimeLimit    |-> 10,
         TypesOnly    |-> FALSE,
         Filter       |-> userFilter,
         Attributes   |-> <<>>]

\* the group request built with the user request's size limit
newGroupSearchRequestLimited(opt, userDN) ==
    [BaseDN       |-> opt.GroupSearchDN,
     Scope        |-> ScopeWholeSubtree,
     DerefAliases |-> NeverDerefAliases,
     SizeLimit    |-> 2,
     TimeLimit    |-> 10,
     TypesOnly    |-> FALSE,
     Filter       |-> <<"(", "&">> \o opt.GroupSearchFilter \o <<"(">>
                      \o opt.GroupMemberAttribute \o <<"=">> \o userDN \o <<")", ")">>,
     Attributes   |-> <<opt.GroupNameAttribute>>]

newGroupSearchRequest(opt, userDN) ==
    LET groupFilter == <<"(", "&">> \o opt.GroupSearchFilter \o <<"(">>
                       \o opt.GroupMemberAttribute \o <<"=">> \o userDN \o <<")", ")">>
    IN  [BaseDN       |-> opt.GroupSearchDN,
         Scope        |-> ScopeWholeSubtree,
         DerefAliases |-> NeverDerefAliases,
         SizeLimit    |-> 0,
         TimeLimit    |-> 10,
         TypesOnly    |-> FALSE,
         Filter       |-> groupFilter,
         Attributes   |-> <<opt.GroupNameAttribute>>]

\* the []error Validate returns
Validate(opt) == <<>>

(***************************************************************************)
(* The installer command                                                   *)
(***************************************************************************)
NamespaceSystem == "kube-system"
NamespaceDefault == "default"

\* the installer's flag values a command line gives (--namespace, --addr, ...)
InstallerFlagValues(f) ==
    CASE f = "namespace"       -> {NamespaceDefault, "guard"}
      [] f = "addr"            -> {"10.96.10.96"}
      [] f = "runOnMaster"     -> {FALSE}
      [] f = "privateRegistry" -> {"registry.example.com"}
      [] f = "imagePullSecret" -> {"regcred"}
      [] f = "TokenAuthFile"   -> {"/path/token.csv"}
      [] OTHER                 -> {"/path/sa.json"}

InstallerFlags == {"namespace", "addr", "runOnMaster", "privateRegistry",
                   "imagePullSecret", "TokenAuthFile", "GoogleServiceAccountJsonFile"}

\* net.SplitHostPort and strconv.Atoi accept the address
AddrValid(addr) == addr = "10.96.10.96:443"

\* what the file system holds when the command runs
Resources == {"pki", "token", "sa", "ca"}

\* one printed object; the fields an object kind lacks are left empty
Object(kind, name, namespace) ==
    [kind |-> kind, name |-> name, namespace |-> namespace, data |-> {},
     volumes |-> <<>>, mounts |-> <<>>, args |-> <<>>]

newNamespace(namespace) == Object("Namespace", namespace, "")

newServiceAccount(namespace) == Object("ServiceAccount", "guard", namespace)

newClusterRole(namespace) == Object("ClusterRole", "guard", namespace)

newClusterRoleBinding(namespace) == Object("ClusterRoleBinding", "guard", namespace)

newSecret(namespace) ==
    [Object("Secret", "guard-pki", namespace) EXCEPT !.data = {"ca.crt", "tls.crt", "tls.key"}]

newSecretForTokenAuth(namespace, data) ==
    [Object("Secret", "guard-auth", namespace) EXCEPT !.data = data]

newSecretForLDAPCert(namespace, data) ==
    [Object("Secret", "guard-cert", namespace) EXCEPT !.data = data]

newService(namespace, addr) == Object("Service", "guard", namespace)

SecretVolume(name) == [Name |-> name, SecretName |-> name]

VolumeMount(name, path) == [Name |-> name, MountPath |-> path]

\* the arguments of the option groups other than LDAP (server, token, google,
\* azure), each kept as one opaque argument
OtherArgs(op) ==
    << <<"server.SecureServingOptions.ToArgs">>, <<"Token.ToArgs">>,
       <<"Google.ToArgs">>, <<"Azure.ToArgs">> >>

\* the deployment mounting guard-auth only for a token file
newDeploymentTokenOnly(op) ==
    LET auth    == op.TokenAuthFile # ""
        cert    == op.LDAP.CaCertFile # Empty
        mounts1 == AppendIf(<<VolumeMount("guard-pki", "/etc/guard/pki")>>, auth,
                            VolumeMount("guard-auth", "/etc/guard/auth"))
        vols1   == AppendIf(<<SecretVolume("guard-pki")>>, auth, SecretVolume("guard-auth"))
        mounts2 == AppendIf(mounts1, cert, VolumeMount("guard-cert", "/etc/guard/certs/"))
        vols2   == AppendIf(vols1, cert, SecretVolume("guard-cert"))
    IN  [Object("Deployment", "guard", op.namespace) EXCEPT
             !.volumes = vols2,
             !.mounts  = mounts2,
             !.args    = << <<"run">>, <<"--v=3">> >> \o OtherArgs(op) \o ToArgs(op.LDAP)]

newDeployment(op) ==
    LET auth    == op.TokenAuthFile # "" \/ op.GoogleServiceAccountJsonFile # ""
        cert    == op.LDAP.CaCertFile # Empty
        mounts0 == <<VolumeMount("guard-pki", "/etc/guard/pki")>>
        vols0   == <<SecretVolume("guard-pki")>>
        mounts1 == AppendIf(mounts0, auth, VolumeMount("guard-auth", "/etc/guard/auth"))
        vols1   == AppendIf(vols0, auth, SecretVolume("guard-auth"))
        mounts2 == AppendIf(mounts1, cert, VolumeMount("guard-cert", "/etc/guard/certs/"))
        vols2   == AppendIf(vols1, cert, SecretVolume("guard-cert"))
    IN  [Object("Deployment", "guard", op.namespace) EXCEPT
             !.volumes = vols2,
             !.mounts  = mounts2,
             !.args    = << <<"run">>, <<"--v=3">> >> \o OtherArgs(op) \o ToArgs(op.LDAP)]

\* the options struct of the installer: its own fields and the LDAP options
InstallerOptions ==
    [namespace |-> opts.namespace, addr |-> opts.addr,
     runOnMaster |-> opts.runOnMaster, privateRegistry |-> opts.privateRegistry,
     imagePullSecret |-> opts.imagePullSecret,
     TokenAuthFile |-> opts.TokenAuthFile,
     GoogleServiceAccountJsonFile |-> opts.GoogleServiceAccountJsonFile,
     LDAP |-> o]

\* the keys of the guard-auth secret
SecretData(op) ==
    (IF op.TokenAuthFile # "" THEN {"token.csv"} ELSE {})
    \cup (IF op.GoogleServiceAccountJsonFile # "" THEN {"sa.json"} ELSE {})

\* a log.Fatal path is taken: nothing is printed
Fatal(op, readable) ==
    \/ ~AddrValid(op.addr)
    \/ "pki" \notin readable
    \/ op.TokenAuthFile # "" /\ "token" \notin readable
    \/ op.GoogleServiceAccountJsonFile # "" /\ "sa" \notin readable
    \/ op.LDAP.CaCertFile # Empty /\ "ca" \notin readable

\* the objects written to the buffer, in order
Manifest(op) ==
    LET b0 == AppendIf(<<>>, op.namespace # NamespaceSystem /\ op.namespace # NamespaceDefault,
                       newNamespace(op.namespace))
        b1 == Append(b0, newServiceAccount(op.namespace))
        b2 == Append(b1, newClusterRole(op.namespace))
        b3 == Append(b2, newClusterRoleBinding(op.namespace))
        b4 == Append(b3, newSecret(op.namespace))
        b5 == AppendIf(b4, Cardinality(SecretData(op)) > 0,
                       newSecretForTokenAuth(op.namespace, SecretData(op)))
        b6 == AppendIf(b5, op.LDAP.CaCertFile # Empty,
                       newSecretForLDAPCert(op.namespace, {"ca.crt"}))
        b7 == Append(b6, newDeployment(op))
        b8 == Append(b7, newService(op.namespace, op.addr))
    IN  b8

(***************************************************************************)
(* State machine                                                           *)
(***************************************************************************)
NoReturn ==
    [op |-> "none", arg |-> Empty, req |-> NoRequest,
     args |-> <<>>, errs |-> <<>>]

Init ==
    /\ phase = "new"
    /\ o = Options
    /\ changed = {}
    /\ ret = NoReturn
    /\ opts = [namespace |-> NamespaceSystem, addr |-> "10.96.10.96:443",
               runOnMaster |-> TRUE, privateRegistry |-> "appscode",
               imagePullSecret |-> "", TokenAuthFile |-> "",
               GoogleServiceAccountJsonFile |-> ""]
    /\ out = [status |-> "none", printed |-> <<>>]

\* o.AddFlags(fs): binds the flags and stores their defaults
AddFlags ==
    /\ phase = "new"
    /\ phase' = "flags"
    /\ o' = AddFlagsDefaults(o)
    /\ UNCHANGED <<changed, ret, opts, out>>

\* the flag set parses one --ldap.* argument into the bound field
SetFlag ==
    /\ phase = "flags"
    /\ Cardinality(changed) < MaxFlags
    /\ \E f \in Flags \ changed :
         \E v \in FlagValues(f) :
           /\ o' = [o EXCEPT ![f] = v]
           /\ changed' = changed \cup {f}
    /\ UNCHANGED <<phase, ret, opts, out>>

\* the flag set parses one installer argument
SetInstallerFlag ==
    /\ phase = "flags"
    /\ \E f \in InstallerFlags :
         \E v \in InstallerFlagValues(f) :
           /\ opts[f] # v
           /\ opts' = [opts EXCEPT ![f] = v]
    /\ UNCHANGED <<phase, o, changed, ret, out>>

\* the command line is parsed; the calls below come from any of the concurrent
\* authentication attempts, in any order
Parsed == phase \in {"flags", "serving"}

\* the user request builder keeping the compiled filter in the configuration
NewUserSearchRequestCaching ==
    /\ Parsed
    /\ phase' = "serving"
    /\ \E username \in Names :
         /\ ret' = [NoReturn EXCEPT !.op = "newUserSearchRequest",
                                   !.arg = username,
                                   !.req = newUserSearchRequest(o, username)]
         /\ o' = [o EXCEPT !.UserSearchFilter = newUserSearchRequest(o, username).Filter]
    /\ UNCHANGED <<changed, opts, out>>

NewUserSearchRequest ==
    /\ Parsed
    /\ phase' = "serving"
    /\ \E username \in Names :
         ret' = [NoReturn EXCEPT !.op = "newUserSearchRequest", !.arg = username,
                                 !.req = newUserSearchRequest(o, username)]
    /\ UNCHANGED <<o, changed, opts, out>>

NewGroupSearchRequest ==
    /\ Parsed
    /\ phase' = "serving"
    /\ \E userDN \in Names :
         ret' = [NoReturn EXCEPT !.op = "newGroupSearchRequest", !.arg = userDN,
                                 !.req = newGroupSearchRequest(o, userDN)]
    /\ UNCHANGED <<o, changed, opts, out>>

CallToArgs ==
    /\ Parsed
    /\ phase' = "serving"
    /\ ret' = [NoReturn EXCEPT !.op = "ToArgs", !.args = ToArgs(o)]
    /\ UNCHANGED <<o, changed, opts, out>>

CallValidate ==
    /\ Parsed
    /\ phase' = "serving"
    /\ ret' = [NoReturn EXCEPT !.op = "Validate", !.errs = Validate(o)]
    /\ UNCHANGED <<o, changed, opts, out>>

\* the installer's Run: prints the manifest, or dies on a log.Fatal
Run ==
    /\ phase = "flags"
    /\ phase' = "done"
    /\ \E readable \in SUBSET Resources :
         out' = IF Fatal(InstallerOptions, readable)
                THEN [status |-> "fatal", printed |-> <<>>]
                ELSE [status |-> "printed", printed |-> Manifest(InstallerOptions)]
    /\ UNCHANGED <<o, changed, ret, opts>>

Next ==
    \/ AddFlags
    \/ SetFlag
    \/ NewUserSearchRequest
    \/ NewGroupSearchRequest
    \/ CallToArgs
    \/ CallValidate

Spec == Init /\ [][Next]_vars

NextInstaller ==
    \/ AddFlags
    \/ SetFlag
    \/ SetInstallerFlag
    \/ Run

SpecInstaller == Init /\ [][NextInstaller]_vars

(***************************************************************************)
(* Properties                                                              *)
(***************************************************************************)
\* the filter (&<base>(<attr>=<escaped value>))
EscapedFilter(base, attr, value) ==
    <<"(", "&">> \o base \o <<"(">> \o attr \o <<"=">> \o EscapeFilter(value) \o <<")", ")">>

\* s holds none of the tokens of S
Without(s, S) == \A i \in 1..Len(s) : s[i] \notin S

\* C1: for every username and every well-formed userSearchFilter the user
\* filter is (&<userSearchFilter>(<userAttribute>=<escaped-username>)): it has
\* balanced parentheses and no unescaped "*" comes from the username.
C1_UserFilterEscaped ==
    (ret.op = "newUserSearchRequest" /\ WellFormed(o.UserSearchFilter))
    => /\ ret.req.Filter = EscapedFilter(o.UserSearchFilter, o.UserAttribute, ret.arg)
       /\ Balanced(ret.req.Filter)
       /\ Without(SubSeq(ret.req.Filter,
                         Len(o.UserSearchFilter) + Len(o.UserAttribute) + 5,
                         Len(ret.req.Filter)), {"*"})

\* C2: for every user DN and every well-formed groupSearchFilter the group
\* filter is (&<groupSearchFilter>(<groupMemberAttribute>=<escaped-userDN>)).
C2_GroupFilterEscaped ==
    (ret.op = "newGroupSearchRequest" /\ WellFormed(o.GroupSearchFilter))
    => ret.req.Filter =
         EscapedFilter(o.GroupSearchFilter, o.GroupMemberAttribute, ret.arg)

\* C3: Validate returns an error whenever ServerAddress is empty.
C3_ValidateRejectsEmptyServerAddress ==
    (ret.op = "Validate" /\ o.ServerAddress = Empty) => ret.errs # <<>>

\* C4: Validate returns an error whenever UserSearchFilter or GroupSearchFilter
\* is not a well-formed filter.
C4_ValidateRejectsMalformedFilter ==
    (ret.op = "Validate"
        /\ (~WellFormed(o.UserSearchFilter) \/ ~WellFormed(o.GroupSearchFilter)))
    => ret.errs # <<>>

\* C5: a configuration accepted by Validate never has both IsSecureLDAP and
\* StartTLS set.
C5_OneTLSPosture ==
    (ret.op = "Validate" /\ ret.errs = <<>>) => ~(o.IsSecureLDAP /\ o.StartTLS)

\* C6: the user request has size limit 2, the group request size limit 0; both
\* have scope whole-subtree and the configured user / group search base.
C6_RequestLimits ==
    /\ ret.op = "newUserSearchRequest"
         => /\ ret.req.SizeLimit = 2
            /\ ret.req.Scope = ScopeWholeSubtree
            /\ ret.req.BaseDN = o.UserSearchDN
    /\ ret.op = "newGroupSearchRequest"
         => /\ ret.req.SizeLimit = 0
            /\ ret.req.Scope = ScopeWholeSubtree
            /\ ret.req.BaseDN = o.GroupSearchDN

C6_Witness ==
    /\ ret.op = "newGroupSearchRequest"
    /\ ret.arg # Empty
    /\ o.GroupSearchDN # Empty
    /\ o.UserSearchDN # o.GroupSearchDN

\* the documented default of each setting that has one
Documented ==
    [UserSearchFilter     |-> <<"(", "objectClass=person", ")">>,
     UserAttribute        |-> <<"uid">>,
     GroupSearchFilter    |-> <<"(", "objectClass=groupOfNames", ")">>,
     GroupMemberAttribute |-> <<"member">>,
     GroupNameAttribute   |-> <<"cn">>,
     ServerPort           |-> <<"389">>]

\* C7: once the flags are bound, every setting left unset has its documented
\* default, and a filter compiled from unset settings is compiled from the
\* default base filter and attribute, never from an empty one.
C7_DefaultsWhenUnset ==
    phase # "new" =>
      /\ \A f \in DOMAIN Documented : f \notin changed => o[f] = Documented[f]
      /\ (ret.op = "newUserSearchRequest"
            /\ {"UserSearchFilter", "UserAttribute"} \cap changed = {})
         => /\ o.UserSearchFilter # Empty /\ o.UserAttribute # Empty
            /\ ret.req.Filter = <<"(", "&", "(", "objectClass=person", ")", "(", "uid", "=">>
                                \o ret.arg \o <<")", ")">>
      /\ (ret.op = "newGroupSearchRequest"
            /\ {"GroupSearchFilter", "GroupMemberAttribute"} \cap changed = {})
         => /\ o.GroupSearchFilter # Empty /\ o.GroupMemberAttribute # Empty
            /\ ret.req.Filter = <<"(", "&", "(", "objectClass=groupOfNames", ")", "(",
                                  "member", "=">> \o ret.arg \o <<")", ")">>

C7_Witness ==
    /\ ret.op = "newUserSearchRequest"
    /\ ret.arg = <<"alice">>
    /\ changed = {"ServerAddress", "GroupSearchFilter"}

\* C8: no call of newUserSearchRequest, newGroupSearchRequest, ToArgs or
\* Validate changes a field of Options, and a request depends only on the
\* configuration and the call's argument: the same call made again returns the
\* same request, whatever was called in between.
C8_CallsLeaveOptionsAlone ==
    [][phase' = "serving" =>
         /\ o' = o
         /\ (ret'.op = ret.op /\ ret'.arg = ret.arg) => ret' = ret]_vars

C8_Witness ==
    /\ phase = "serving"
    /\ ret.op = "newGroupSearchRequest"
    /\ ret.arg = <<"alice">>
    /\ "UserSearchFilter" \in changed

\* the flag each string field is emitted under
FlagName(f) ==
    CASE f = "ServerAddress"        -> "--ldap.server-address="
      [] f = "ServerPort"           -> "--ldap.server-port="
      [] f = "BindDN"               -> "--ldap.bind-dn="
      [] f = "BindPassword"         -> "--ldap.bind-password="
      [] f = "UserSearchDN"         -> "--ldap.user-search-dn="
      [] f = "UserSearchFilter"     -> "--ldap.user-search-filter="
      [] f = "UserAttribute"        -> "--ldap.user-attribute="
      [] f = "GroupSearchDN"        -> "--ldap.group-search-dn="
      [] f = "GroupSearchFilter"    -> "--ldap.group-search-filter="
      [] f = "GroupMemberAttribute" -> "--ldap.group-member-attribute="
      [] f = "GroupNameAttribute"   -> "--ldap.group-name-attribute="
      [] OTHER                      -> "--ldap.ca-cert-file="

\* C9: ToArgs emits each string flag exactly when its own field is non-empty,
\* and never with an empty value.
C9_FlagIffOwnField ==
    ret.op = "ToArgs" =>
      \A f \in StringFlags :
        /\ o[f] # Empty <=> \E i \in 1..Len(ret.args) : Head(ret.args[i]) = FlagName(f)
        /\ \A i \in 1..Len(ret.args) : ret.args[i] # <<FlagName(f)>>

\* the position of the Deployment in a printed manifest
DeploymentAt(m) == CHOOSE d \in 1..Len(m) : m[d].kind = "Deployment"

\* C10: in a printed manifest every secret the Deployment mounts (guard-pki
\* always) is a Secret of that name and namespace printed before it, and the
\* guard-auth / guard-cert Secrets are printed only when mounted.
C10_MountedSecretsPrinted ==
    out.status = "printed" =>
      LET m   == out.printed
          d   == DeploymentAt(m)
          dep == m[d]
          volNames == {dep.volumes[i].SecretName : i \in 1..Len(dep.volumes)}
          mntNames == {dep.mounts[i].Name : i \in 1..Len(dep.mounts)}
      IN  /\ \E e \in 1..Len(m) : m[e].kind = "Deployment"
          /\ "guard-pki" \in volNames
          /\ mntNames = {dep.volumes[i].Name : i \in 1..Len(dep.volumes)}
          /\ \A n \in volNames :
               \E i \in 1..(d - 1) : /\ m[i].kind = "Secret"
                                     /\ m[i].name = n
                                     /\ m[i].namespace = dep.namespace
          /\ \A i \in 1..Len(m) :
               (m[i].kind = "Secret" /\ m[i].name \in {"guard-auth", "guard-cert"})
               => m[i].name \in volNames

C10_Witness ==
    /\ out.status = "printed"
    /\ opts.namespace = "guard"
    /\ opts.TokenAuthFile = ""
    /\ opts.GoogleServiceAccountJsonFile # ""
    /\ o.CaCertFile # Empty
    /\ Len(out.printed) = 9

\* C11: in a printed manifest, when LDAP.CaCertFile is non-empty the container
\* args hold --ldap.ca-cert-file=/etc/guard/certs/ca.crt, guard-cert is mounted
\* at /etc/guard/certs/ and the guard-cert Secret carries the key ca.crt, so
\* the flag names a file of the mount; when it is empty there is no such flag,
\* mount, volume or Secret.
C11_CaPathMatchesMount ==
    out.status = "printed" =>
      LET m   == out.printed
          dep == m[DeploymentAt(m)]
          flagged  == {i \in 1..Len(dep.args) : Head(dep.args[i]) = "--ldap.ca-cert-file="}
          mounted  == {i \in 1..Len(dep.mounts) : dep.mounts[i].Name = "guard-cert"}
          volumes  == {i \in 1..Len(dep.volumes) : dep.volumes[i].SecretName = "guard-cert"}
          secrets  == {i \in 1..Len(m) : m[i].kind = "Secret" /\ m[i].name = "guard-cert"}
      IN  IF o.CaCertFile # Empty
          THEN /\ Cardinality(flagged) = 1
               /\ Cardinality(mounted) = 1
               /\ Cardinality(volumes) = 1
               /\ Cardinality(secrets) = 1
               /\ \A i \in flagged :
                    dep.args[i] = <<"--ldap.ca-cert-file=", "/etc/guard/certs/", "ca.crt">>
               /\ \A i \in mounted : dep.mounts[i].MountPath = "/etc/guard/certs/"
               /\ \A i \in secrets : "ca.crt" \in m[i].data
               /\ \A i \in flagged, j \in mounted, k \in secrets :
                    /\ Len(dep.args[i]) = 3
                    /\ dep.args[i][2] = dep.mounts[j].MountPath
                    /\ dep.args[i][3] \in m[k].data
          ELSE flagged = {} /\ mounted = {} /\ volumes = {} /\ secrets = {}

C11_Witness ==
    /\ out.status = "printed"
    /\ o.CaCertFile = <<"/path/ca.crt">>
    /\ o.ServerAddress # Empty
    /\ opts.TokenAuthFile # ""

====
